---- MODULE Spec2Model ----
(***************************************************************************)
(* Model of receive_data_chunks.py: the shift-on-write ring buffer         *)
(* (getRingbufferValues) and the pacing loop of main().                    *)
(*                                                                         *)
(* Arrays are sequences (index 1 is numpy index 0).  Time is counted in    *)
(* ticks of 0.02 s of one monotonic clock that both perf_counter() and     *)
(* local_clock() read.                                                     *)
(***************************************************************************)
EXTENDS Integers, Sequences, FiniteSets, TLC

\* ---------------------------------------------------------------- bounds
\* buffer_size of main() (2500 in the source), scaled down.
buffer_size == 3
\* stream_info.channel_count() of the resolved stream.
channel_count == 2
\* dt_read_buffer of main(): 0.04 s, in ticks of 0.02 s.
dt_read_buffer == 2
\* The monotonic clock is followed up to this tick.
MaxTime == 5
\* The stream is followed up to this many delivered samples.
MaxSamples == 5
\* The direct-call harness makes at most this many calls.
MaxCalls == 2

\* Longest chunk the adapter hands over: one more than the buffer holds.
MaxChunk == buffer_size + 1
\* Clock-offset estimates the adapter can report.
Offsets == {0, 1}

VARIABLES
    data_buffer,        \* Sample Matrix: buffer_size rows of channel_count values
    timestamp_buffer,   \* Time Record: buffer_size rows <<host ts, local time, offset>>
    chunk,              \* main: chunk returned by the last pull_chunk()
    timestamps,         \* main: its source timestamps
    current_local_time, \* main: local_clock() read for the current chunk
    timestamp_offset,   \* main: inlet.time_correction() read last
    old_time,           \* main: << >> while unbound, <<t>> once assigned (line 180)
    pc,                 \* position of main's loop
    cause,              \* exception that ended main ("none" while running)
    now,                \* the monotonic clock
    inlet_offset,       \* the adapter's clock-offset estimate when last queried
    seq,                \* samples the stream has delivered so far
    raised,             \* outcome of the last getRingbufferValues call
    pre_data,           \* data_buffer as it was when that call was entered
    pre_time,           \* timestamp_buffer as it was when that call was entered
    hist,               \* rows written by the completed appends of main, in order
    entries,            \* the last two entries into PROCESSING_CHUNK
    calls,              \* calls made by the direct-call harness
    report,             \* << >>, or the last report sendDetectedError built
    iters               \* start times of the previous and the current iteration

vars == <<data_buffer, timestamp_buffer, chunk, timestamps, current_local_time,
          timestamp_offset, old_time, pc, cause, now, inlet_offset, seq, raised,
          pre_data, pre_time, hist, entries, calls, report, iters>>

Max(a, b) == IF a >= b THEN a ELSE b

\* ------------------------------------------------------- numpy semantics
\* Mutant of Shape: the empty list taken for an empty (0, channel_count) array.
ShapeAlways2D(a) == <<Len(a), IF Len(a) = 0 THEN channel_count ELSE Len(a[1])>>

\* np.array(list).shape: (0,) for the empty list, (rows, width) for a list of rows.
Shape(a) == IF Len(a) = 0 THEN <<0>> ELSE <<Len(a), Len(a[1])>>

\* np.array(list of floats).shape
Shape1(a) == <<Len(a)>>

\* numpy's rule for assigning a source of shape s into a target of shape d:
\* aligned from the last axis, every source axis equals the target's or is 1.
CanBroadcast(s, d) ==
    /\ Len(s) <= Len(d)
    /\ \A i \in 1..Len(s) :
          LET sv == s[Len(s) - i + 1]
              dv == d[Len(d) - i + 1]
          IN  sv = dv \/ sv = 1

\* Mutant of TailLen: the length computed as len - n, without the slice's clamp.
TailLenNoClamp(len, n) == len - n

\* a[n:].shape[0] for an array of len rows
TailLen(len, n) == Max(0, len - n)

\* Mutant of ShiftRows: the kept rows taken from one row too early.
ShiftRowsOffByOne(a, n) ==
    LET k == TailLen(Len(a), n)
    IN  [i \in 1..Len(a) |-> IF i <= k /\ n > 0 THEN a[i + n - 1] ELSE a[i]]

\* a[0:k] = a[n:] with k = a[n:].shape[0]  (numpy copies overlapping operands)
ShiftRows(a, n) ==
    LET k == TailLen(Len(a), n)
    IN  [i \in 1..Len(a) |-> IF i <= k THEN a[i + n] ELSE a[i]]

\* Mutant of SetRows: the chunk's rows written newest first.
SetRowsReversed(a, k, src) ==
    [i \in 1..Len(a) |->
        IF i <= k THEN a[i]
        ELSE LET r == IF Len(src) = 1 THEN src[1] ELSE src[Len(src) - (i - k) + 1]
             IN  [c \in 1..channel_count |-> IF Len(r) = 1 THEN r[1] ELSE r[c]]]

\* a[k:, :] = src for a broadcastable 2-d src
SetRows(a, k, src) ==
    [i \in 1..Len(a) |->
        IF i <= k THEN a[i]
        ELSE LET r == IF Len(src) = 1 THEN src[1] ELSE src[i - k]
             IN  [c \in 1..channel_count |-> IF Len(r) = 1 THEN r[1] ELSE r[c]]]

\* Mutant of ShiftCol: the column's kept values left where they were.
ShiftColNoShift(a, col, n) == a

\* a[0:k, col] = a[n:, col]
ShiftCol(a, col, n) ==
    LET k == TailLen(Len(a), n)
    IN  [i \in 1..Len(a) |-> IF i <= k THEN [a[i] EXCEPT ![col] = a[i + n][col]] ELSE a[i]]

\* Mutant of SetCol: every new row given the chunk's first timestamp.
SetColFirst(a, col, k, src) ==
    [i \in 1..Len(a) |-> IF i <= k THEN a[i] ELSE [a[i] EXCEPT ![col] = src[1]]]

\* a[k:, col] = src for a broadcastable 1-d src
SetCol(a, col, k, src) ==
    [i \in 1..Len(a) |->
        IF i <= k THEN a[i]
        ELSE [a[i] EXCEPT ![col] = IF Len(src) = 1 THEN src[1] ELSE src[i - k]]]

\* Mutant of FillCol: the scalar written over the whole column.
FillColAll(a, col, k, v) == [i \in 1..Len(a) |-> [a[i] EXCEPT ![col] = v]]

\* a[k:, col] = scalar
FillCol(a, col, k, v) ==
    [i \in 1..Len(a) |-> IF i <= k THEN a[i] ELSE [a[i] EXCEPT ![col] = v]]

\* current_chunk.shape[0]
n_samples(ch) == Shape(ch)[1]

\* Lines 46-48: the Sample Matrix part.  The shift of line 47 is done in place
\* before line 48 can raise.
WriteData(ch, db) ==
    LET n  == n_samples(ch)
        k  == TailLen(Len(db), n)
        d1 == ShiftRows(db, n)
    IN  IF CanBroadcast(Shape(ch), <<Len(db) - k, channel_count>>)
        THEN [data |-> SetRows(d1, k, ch), raised |-> "none"]
        ELSE [data |-> d1, raised |-> "ValueError"]

\* Lines 51-55: the host-timestamp column.
WriteStamps(ch, ts, tb) ==
    LET n  == n_samples(ch)
        k  == TailLen(Len(tb), n)
        t1 == ShiftCol(tb, 1, n)
    IN  IF CanBroadcast(Shape1(ts), <<Len(tb) - k>>)
        THEN [time |-> SetCol(t1, 1, k, ts), raised |-> "none"]
        ELSE [time |-> t1, raised |-> "ValueError"]

\* Mutant of WriteLocal: the offset column filled but not shifted (lines 62-63
\* left out).
WriteLocalOffsetUnshifted(ch, clt, off, tb) ==
    LET n  == n_samples(ch)
        k  == TailLen(Len(tb), n)
        t2 == FillCol(ShiftCol(tb, 2, n), 2, k, clt)
    IN  FillCol(t2, 3, k, off)

\* Lines 57-64: the local-time and offset columns, filled with scalars.
WriteLocal(ch, clt, off, tb) ==
    LET n  == n_samples(ch)
        k  == TailLen(Len(tb), n)
        t2 == FillCol(ShiftCol(tb, 2, n), 2, k, clt)
    IN  FillCol(ShiftCol(t2, 3, n), 3, k, off)

\* getRingbufferValues: the buffers as the call leaves them (they are mutated in
\* place, so a raise leaves what was written so far) and the exception, if any.
getRingbufferValues(ch, ts, clt, off, db, tb) ==
    LET d == WriteData(ch, db)
    IN  IF d.raised # "none"
        THEN [data_buffer |-> d.data, timestamp_buffer |-> tb, raised |-> d.raised]
        ELSE LET t == WriteStamps(ch, ts, tb)
             IN  IF t.raised # "none"
                 THEN [data_buffer |-> d.data, timestamp_buffer |-> t.time,
                       raised |-> t.raised]
                 ELSE [data_buffer |-> d.data,
                       timestamp_buffer |-> WriteLocal(ch, clt, off, t.time),
                       raised |-> "none"]

\* ------------------------------------------------------------ the stream
\* The k-th sample of the stream, as a row of w channel readings.
Sample(k, w) == [c \in 1..w |-> 10 * k + c]

\* The source-clock timestamp of the k-th sample.
SourceTime(k) == k

\* n rows of width w following the first samples already delivered.
MakeChunk(first, n, w) == [k \in 1..n |-> Sample(first + k, w)]

\* m source timestamps following the first samples already delivered.
MakeStamps(first, m) == [k \in 1..m |-> SourceTime(first + k)]

\* np.zeros((buffer_size, channel_count)) and np.zeros((buffer_size, 3))
ZeroData == [i \in 1..buffer_size |-> [c \in 1..channel_count |-> 0]]
ZeroTime == [i \in 1..buffer_size |-> <<0, 0, 0>>]

\* local_clock() and perf_counter()
local_clock == now
perf_counter == now

Init ==
    /\ data_buffer = ZeroData
    /\ timestamp_buffer = ZeroTime
    /\ chunk = << >>
    /\ timestamps = << >>
    /\ current_local_time = 0
    /\ inlet_offset \in Offsets
    /\ timestamp_offset = inlet_offset
    /\ old_time = << >>
    /\ pc = "poll"
    /\ cause = "none"
    /\ now = 0
    /\ seq = 0
    /\ raised = "none"
    /\ pre_data = ZeroData
    /\ pre_time = ZeroTime
    /\ hist = << >>
    /\ entries = << >>
    /\ calls = 0
    /\ report = << >>
    /\ iters = <<0>>

\* ------------------------------------------------------------- main loop
\* Ghost: remember the last two entries into PROCESSING_CHUNK, each with the
\* clock at the entry and old_time (the iteration's start) as it was then.
NoteEntry(es, at, start) ==
    LET all == Append(es, [at |-> at, start |-> start])
    IN  IF Len(all) > 2 THEN Tail(all) ELSE all

\* Ghost: the rows a completed append of chunk ch has written.
NoteRows(h, ch, ts, clt, off) ==
    h \o [k \in 1..Len(ch) |-> [sample |-> ch[k], ts |-> ts[k], lrt |-> clt, off |-> off]]

\* Mutant of PullChunk: the throttle wait of lines 168-169 placed outside the
\* if of line 145, so that an empty poll waits too.
PullChunkThrottleAlways ==
    /\ pc = "poll"
    /\ \E n \in 0..MaxChunk :
          /\ seq + n <= MaxSamples
          /\ chunk' = MakeChunk(seq, n, channel_count)
          /\ timestamps' = MakeStamps(seq, n)
          /\ seq' = seq + n
          /\ IF n > 0
             THEN /\ pc' = "timing"
                  /\ entries' = NoteEntry(entries, now, old_time)
             ELSE /\ pc' = "throttle"
                  /\ entries' = entries
    /\ UNCHANGED <<data_buffer, timestamp_buffer, current_local_time, timestamp_offset,
                   old_time, cause, now, inlet_offset, raised, pre_data, pre_time,
                   hist, calls, report, iters>>

\* Line 143, 145: chunk, timestamps = inlet.pull_chunk(); if(chunk).  The inlet
\* returns n rows of channel_count readings with n timestamps; n = 0 is "no data".
PullChunk ==
    /\ pc = "poll"
    /\ \E n \in 0..MaxChunk :
          /\ seq + n <= MaxSamples
          /\ chunk' = MakeChunk(seq, n, channel_count)
          /\ timestamps' = MakeStamps(seq, n)
          /\ seq' = seq + n
          /\ IF n > 0
             THEN /\ pc' = "timing"
                  /\ entries' = NoteEntry(entries, now, old_time)
             ELSE /\ pc' = "mark"
                  /\ entries' = entries
    /\ UNCHANGED <<data_buffer, timestamp_buffer, current_local_time, timestamp_offset,
                   old_time, cause, now, inlet_offset, raised, pre_data, pre_time,
                   hist, calls, report, iters>>

\* Line 143: pull_chunk() raises (stream lost); nothing in main catches it.
PullChunkFails ==
    /\ pc = "poll"
    /\ pc' = "crashed"
    /\ cause' = "AdapterError"
    /\ UNCHANGED <<data_buffer, timestamp_buffer, chunk, timestamps, current_local_time,
                   timestamp_offset, old_time, now, inlet_offset, seq, raised,
                   pre_data, pre_time, hist, entries, calls, report, iters>>

\* Mutant of GetTimingInfo: line 149 left out, the offset of line 138 or of an
\* earlier chunk kept while the adapter's estimate moves on.
GetTimingInfoStaleOffset ==
    /\ pc = "timing"
    /\ current_local_time' = local_clock
    /\ inlet_offset' \in Offsets
    /\ timestamp_offset' = timestamp_offset
    /\ pc' = "append"
    /\ UNCHANGED <<data_buffer, timestamp_buffer, chunk, timestamps, old_time, cause,
                   now, seq, raised, pre_data, pre_time, hist, entries, calls, report,
                   iters>>

\* Lines 148-149: current_local_time = local_clock(); timestamp_offset =
\* inlet.time_correction().  The adapter's estimate may have drifted to any value
\* since it was last queried.
GetTimingInfo ==
    /\ pc = "timing"
    /\ current_local_time' = local_clock
    /\ inlet_offset' \in Offsets
    /\ timestamp_offset' = inlet_offset'
    /\ pc' = "append"
    /\ UNCHANGED <<data_buffer, timestamp_buffer, chunk, timestamps, old_time, cause,
                   now, seq, raised, pre_data, pre_time, hist, entries, calls, report, iters>>

\* Line 152 (and the clock read of line 162): the append.  An exception raised
\* inside getRingbufferValues is caught nowhere and ends main.
AppendChunk ==
    /\ pc = "append"
    /\ LET r == getRingbufferValues(chunk, timestamps, current_local_time,
                                    timestamp_offset, data_buffer, timestamp_buffer)
       IN  /\ pre_data' = data_buffer
           /\ pre_time' = timestamp_buffer
           /\ data_buffer' = r.data_buffer
           /\ timestamp_buffer' = r.timestamp_buffer
           /\ raised' = r.raised
           /\ IF r.raised = "none"
              THEN /\ pc' = "throttle"
                   /\ cause' = cause
                   /\ hist' = NoteRows(hist, chunk, timestamps, current_local_time,
                                       timestamp_offset)
              ELSE /\ pc' = "crashed"
                   /\ cause' = r.raised
                   /\ hist' = hist
    /\ UNCHANGED <<chunk, timestamps, current_local_time, timestamp_offset, old_time,
                   now, inlet_offset, seq, entries, calls, report, iters>>

\* Mutant of Waiting: the wait ended one tick early.
WaitingOneShort(old) == perf_counter - old < dt_read_buffer - 1

\* Mutant of Waiting: the comparison of line 168 turned around.
WaitingInverted(old) == perf_counter - old > dt_read_buffer

\* Line 168: the condition under which the throttle keeps spinning.
Waiting(old) == perf_counter - old < dt_read_buffer

\* Line 168, old_time never assigned: the first read of it raises UnboundLocalError.
ThrottleUnbound ==
    /\ pc = "throttle"
    /\ old_time = << >>
    /\ pc' = "crashed"
    /\ cause' = "UnboundLocalError"
    /\ UNCHANGED <<data_buffer, timestamp_buffer, chunk, timestamps, current_local_time,
                   timestamp_offset, old_time, now, inlet_offset, seq, raised,
                   pre_data, pre_time, hist, entries, calls, report, iters>>

\* Line 168: the spin ends at the first test that finds
\* perf_counter() - old_time >= dt_read_buffer; until then the loop only re-reads
\* the clock (no state change).
ThrottleDone ==
    /\ pc = "throttle"
    /\ old_time # << >>
    /\ ~Waiting(old_time[1])
    /\ pc' = "mark"
    /\ UNCHANGED <<data_buffer, timestamp_buffer, chunk, timestamps, current_local_time,
                   timestamp_offset, old_time, cause, now, inlet_offset, seq, raised,
                   pre_data, pre_time, hist, entries, calls, report, iters>>

\* Ghost: an iteration starts when the previous one has run its last statement;
\* keep the start times of the previous and of the current iteration.
NoteStart(its, at) ==
    LET all == Append(its, at)
    IN  IF Len(all) > 2 THEN Tail(all) ELSE all

\* Mutant of MarkTime: the buffers of lines 134-135 allocated anew inside the
\* loop, on every iteration.
MarkTimeClearsBuffers ==
    /\ pc = "mark"
    /\ old_time' = <<perf_counter>>
    /\ pc' = "poll"
    /\ iters' = NoteStart(iters, now)
    /\ data_buffer' = ZeroData
    /\ timestamp_buffer' = ZeroTime
    /\ UNCHANGED <<chunk, timestamps, current_local_time, timestamp_offset, cause, now,
                   inlet_offset, seq, raised, pre_data, pre_time, hist, entries, calls,
                   report>>

\* Line 180: old_time = perf_counter(), on every iteration.
MarkTime ==
    /\ pc = "mark"
    /\ old_time' = <<perf_counter>>
    /\ pc' = "poll"
    /\ iters' = NoteStart(iters, now)
    /\ UNCHANGED <<data_buffer, timestamp_buffer, chunk, timestamps, current_local_time,
                   timestamp_offset, cause, now, inlet_offset, seq, raised, pre_data,
                   pre_time, hist, entries, calls, report>>

\* The monotonic clock advances, between any two statements of the loop.
Tick ==
    /\ pc # "crashed"
    /\ now < MaxTime
    /\ now' = now + 1
    /\ UNCHANGED <<data_buffer, timestamp_buffer, chunk, timestamps, current_local_time,
                   timestamp_offset, old_time, pc, cause, inlet_offset, seq, raised,
                   pre_data, pre_time, hist, entries, calls, report, iters>>

Next ==
    \/ PullChunk
    \/ PullChunkFails
    \/ GetTimingInfo
    \/ AppendChunk
    \/ ThrottleUnbound
    \/ ThrottleDone
    \/ MarkTime
    \/ Tick

Spec == Init /\ [][Next]_vars

\* The loop as it runs: the interpreter always executes the next statement and
\* the monotonic clock keeps advancing; nothing obliges the adapter to fail.
LoopStep ==
    \/ PullChunk
    \/ GetTimingInfo
    \/ AppendChunk
    \/ ThrottleUnbound
    \/ ThrottleDone
    \/ MarkTime

SpecLive == Spec /\ WF_vars(LoopStep) /\ WF_vars(Tick)

\* ---------------------------------------------- getRingbufferValues alone
\* Widths and timestamp counts a direct caller can pass beside the right ones.
Widths == {1, channel_count, channel_count + 1}
StampCounts(n) == {m \in {0, 1, n, n + 1} : m <= MaxChunk}

\* A direct call of getRingbufferValues on the buffers, with any chunk of the
\* stream's next n samples in rows of width w and any m timestamps; the receipt
\* time passed rises from call to call.
CallAppend ==
    /\ calls < MaxCalls
    /\ \E n \in 0..MaxChunk, w \in Widths, off \in Offsets :
        \E m \in StampCounts(n) :
          /\ seq + Max(n, m) <= MaxSamples
          /\ LET ch == MakeChunk(seq, n, w)
                 ts == MakeStamps(seq, m)
                 clt == calls + 1
                 r  == getRingbufferValues(ch, ts, clt, off, data_buffer,
                                           timestamp_buffer)
             IN  /\ chunk' = ch
                 /\ timestamps' = ts
                 /\ current_local_time' = clt
                 /\ timestamp_offset' = off
                 /\ pre_data' = data_buffer
                 /\ pre_time' = timestamp_buffer
                 /\ data_buffer' = r.data_buffer
                 /\ timestamp_buffer' = r.timestamp_buffer
                 /\ raised' = r.raised
                 /\ seq' = seq + n
    /\ calls' = calls + 1
    /\ UNCHANGED <<old_time, pc, cause, now, inlet_offset, hist, entries, report, iters>>

SpecAppend == Init /\ [][CallAppend]_vars

\* ------------------------------------------------------ sendDetectedError
\* Mutant of sendDetectedError: the clock offset added instead of subtracted.
sendDetectedErrorOffsetAdded(team_name, secret_id, timestamp_buffer_vals, local_clock_time) ==
    [team           |-> team_name,
     secret         |-> secret_id,
     host_timestamp |-> timestamp_buffer_vals[1],
     comp_time      |-> local_clock_time - timestamp_buffer_vals[2],
     comm_delay     |-> timestamp_buffer_vals[2] - timestamp_buffer_vals[1]
                            + timestamp_buffer_vals[3]]

\* Lines 81-91: the record (myobj) that sendDetectedError builds from one row of
\* timestamp_buffer and a later clock read.
sendDetectedError(team_name, secret_id, timestamp_buffer_vals, local_clock_time) ==
    [team           |-> team_name,
     secret         |-> secret_id,
     host_timestamp |-> timestamp_buffer_vals[1],
     comp_time      |-> local_clock_time - timestamp_buffer_vals[2],
     comm_delay     |-> timestamp_buffer_vals[2] - timestamp_buffer_vals[1]
                            - timestamp_buffer_vals[3]]

\* Outcomes of requests.post (line 93).
PostOutcomes == {"ok", "ConnectionError"}

\* A call of sendDetectedError on row i of timestamp_buffer with a clock read d,
\* as lines 162-164 make it.
SendDetectedError ==
    /\ \E i \in 1..buffer_size, d \in 0..MaxTime, o \in PostOutcomes :
          report' = <<[obj  |-> sendDetectedError("team1", "example_team",
                                                  timestamp_buffer[i], d),
                       vals |-> timestamp_buffer[i],
                       at   |-> d,
                       post |-> o]>>
    /\ UNCHANGED <<data_buffer, timestamp_buffer, chunk, timestamps, current_local_time,
                   timestamp_offset, old_time, pc, cause, now, inlet_offset, seq,
                   raised, pre_data, pre_time, hist, entries, calls, iters>>

\* Appends that meet the contract, and reports on the rows they leave.
ReportNext ==
    \/ CallAppend /\ Len(chunk') \in 1..buffer_size
                  /\ Len(chunk'[1]) = channel_count
                  /\ Len(timestamps') = Len(chunk')
    \/ SendDetectedError

SpecReport == Init /\ [][ReportNext]_vars

\* ================================================================ claims
\* A call whose arguments meet the contract of the append: 0 < n <= buffer_size
\* rows, each of channel_count readings, and n timestamps.
ValidCall ==
    /\ Len(chunk) \in 1..buffer_size
    /\ \A k \in 1..Len(chunk) : Len(chunk[k]) = channel_count
    /\ Len(timestamps) = Len(chunk)

\* The row of the zero-initialised buffers, as a history entry.
ZeroRow == [sample |-> [c \in 1..channel_count |-> 0], ts |-> 0, lrt |-> 0, off |-> 0]

\* buffer_size zero rows followed by every appended row, in arrival order.
Padded == [i \in 1..buffer_size |-> ZeroRow] \o hist

\* Its last buffer_size elements.
Window == SubSeq(Padded, Len(Padded) - buffer_size + 1, Len(Padded))

\* C1: after an append of a valid chunk of n rows (0 < n <= buffer_size, n =
\* buffer_size included) the call has completed, the last n rows of the Sample
\* Matrix are the chunk's rows in chunk order, and rows [0, buffer_size - n) are
\* the rows [n, buffer_size) the matrix held before the call.
C1_AppendPlacesChunk ==
    (calls > 0 /\ ValidCall) =>
        LET n == Len(chunk)
        IN  /\ raised = "none"
            /\ Len(data_buffer) = buffer_size
            /\ \A k \in 1..n : data_buffer[buffer_size - n + k] = chunk[k]
            /\ \A i \in 1..(buffer_size - n) : data_buffer[i] = pre_data[i + n]

\* C1 witness: a valid append of fewer than buffer_size rows onto a buffer whose
\* newest row was written by an earlier append, which survives the shift.
C1_Witness ==
    /\ calls > 1
    /\ ValidCall
    /\ Len(chunk) < buffer_size
    /\ pre_data[buffer_size] # ZeroRow.sample
    /\ data_buffer[buffer_size - Len(chunk)] = pre_data[buffer_size]

\* C2: after any sequence of appends of the loop, the Sample Matrix has exactly
\* buffer_size rows and is the last buffer_size elements of (buffer_size zero
\* rows followed by all appended rows in arrival order).
C2_FifoWindow ==
    /\ Len(data_buffer) = buffer_size
    /\ \A i \in 1..buffer_size : data_buffer[i] = Window[i].sample

\* C2 witness: more rows were appended than the buffer holds, so rows written
\* by an earlier append have been evicted and others of them retained.
C2_Witness ==
    /\ Len(hist) > buffer_size
    /\ pc = "throttle"
    /\ Len(chunk) < buffer_size
    /\ data_buffer[1] # ZeroRow.sample

\* C3: after every completed append, row i of the Time Record describes the
\* sample of row i of the Sample Matrix: both rows come from the same appended
\* row (the same position of the same chunk), for every i.
C3_RowsAligned ==
    /\ Len(timestamp_buffer) = Len(data_buffer)
    /\ \A i \in 1..buffer_size :
          \E j \in 1..Len(Padded) :
              /\ j = Len(Padded) - buffer_size + i
              /\ data_buffer[i] = Padded[j].sample
              /\ timestamp_buffer[i] = <<Padded[j].ts, Padded[j].lrt, Padded[j].off>>

\* C3 witness: after a second completed append the buffers hold rows of two
\* chunks, each with its own source timestamp.
C3_Witness ==
    /\ pc = "throttle"
    /\ Len(hist) > Len(chunk)
    /\ Len(chunk) > 1
    /\ Len(chunk) < buffer_size
    /\ timestamp_buffer[buffer_size][1] = timestamps[Len(timestamps)]
    /\ timestamp_buffer[buffer_size - Len(chunk)][1] # 0

\* C4: after an append called with local_receipt_time t and clock_offset o the
\* last n rows of the Time Record carry t and o, and every row of an earlier
\* chunk still carries the values passed to that earlier append.
C4_ReceiptTimeAndOffset ==
    /\ pc = "throttle" =>
          \A k \in 1..Len(chunk) :
              /\ timestamp_buffer[buffer_size - Len(chunk) + k][2] = current_local_time
              /\ timestamp_buffer[buffer_size - Len(chunk) + k][3] = timestamp_offset
    /\ \A i \in 1..buffer_size :
          /\ timestamp_buffer[i][2] = Window[i].lrt
          /\ timestamp_buffer[i][3] = Window[i].off

\* C4 witness: the buffer holds rows of two chunks received at different local
\* times under different offsets.
C4_Witness ==
    /\ pc = "throttle"
    /\ Len(chunk) < buffer_size
    /\ timestamp_buffer[buffer_size][2] = current_local_time
    /\ timestamp_buffer[buffer_size - Len(chunk)][2] \notin {0, current_local_time}
    /\ timestamp_buffer[buffer_size - Len(chunk)][3] # timestamp_offset
    /\ Len(hist) > Len(chunk)

\* C5: append is all-or-nothing: whenever a call raises, the Sample Matrix and
\* the Time Record are exactly as they were when the call was entered.
C5_AllOrNothing ==
    (calls > 0 /\ raised # "none") =>
        /\ data_buffer = pre_data
        /\ timestamp_buffer = pre_time

\* C6: a call whose chunk rows are not channel_count wide, or whose timestamps
\* are not as many as its rows, raises; it never completes normally.
C6_MalformedRejected ==
    (/\ calls > 0
     /\ Len(chunk) > 0
     /\ \/ Len(chunk[1]) # channel_count
        \/ Len(timestamps) # Len(chunk))
    => raised # "none"

\* C7: an append of more than buffer_size rows raises, writes no row of either
\* array and leaves both at buffer_size rows.
C7_OversizeRejected ==
    (calls > 0 /\ Len(chunk) > buffer_size) =>
        /\ raised = "ValueError"
        /\ data_buffer = pre_data
        /\ timestamp_buffer = pre_time
        /\ Len(data_buffer) = buffer_size
        /\ Len(timestamp_buffer) = buffer_size

\* C7 witness: a chunk of buffer_size + 1 well-formed rows, passed when the
\* buffer already holds appended rows, has been rejected.
C7_Witness ==
    /\ calls > 1
    /\ Len(chunk) = buffer_size + 1
    /\ Len(chunk[1]) = channel_count
    /\ Len(timestamps) = Len(chunk)
    /\ raised = "ValueError"
    /\ pre_data[buffer_size] # ZeroRow.sample

\* C8: an append of a zero-length chunk raises; it is never accepted as a no-op
\* that returns normally.
C8_EmptyRejected ==
    (calls > 0 /\ Len(chunk) = 0) => raised = "ValueError"

\* C8 witness: a call with the empty chunk and no timestamps has raised.
C8_Witness ==
    /\ calls > 0
    /\ Len(chunk) = 0
    /\ Len(timestamps) = 0
    /\ raised = "ValueError"

\* C9 as stated: between two consecutive entries into PROCESSING_CHUNK at least
\* dt_read_buffer of monotonic time elapses.
C9_EntriesDtApart ==
    Len(entries) = 2 => entries[2].at - entries[1].at >= dt_read_buffer

\* C9 amended: an entry into PROCESSING_CHUNK comes at least dt_read_buffer
\* after the start (the old_time reading) of the iteration that made the
\* previous entry.
C9_EntryAfterPreviousStart ==
    Len(entries) = 2 =>
        /\ entries[1].start # << >>
        /\ entries[2].at - entries[1].start[1] >= dt_read_buffer

\* C9 witness: two consecutive entries, the first made after its iteration
\* had spent time in the poll.
C9_Witness ==
    /\ Len(entries) = 2
    /\ entries[1].start # << >>
    /\ entries[1].at > entries[1].start[1]
    /\ pc = "timing"

\* C10: only a failure of the adapter's poll ends the loop.
C10_OnlyAdapterFailureTerminates ==
    pc = "crashed" => cause = "AdapterError"

\* C11: the report built from one Time Record row (source_timestamp,
\* local_receipt_time, clock_offset) and a later clock read d carries
\* host_timestamp = source_timestamp, comm_delay = local_receipt_time -
\* source_timestamp - clock_offset and comp_time = d - local_receipt_time, all
\* from that row.
C11_ReportFromOneRow ==
    report # << >> =>
        LET r == report[1]
        IN  /\ r.obj.host_timestamp = r.vals[1]
            /\ r.obj.comm_delay + r.vals[3] + r.vals[1] = r.vals[2]
            /\ r.obj.comp_time + r.vals[2] = r.at

\* C11 witness: a report on a row written by an append, with a non-zero source
\* timestamp, receipt time and offset and a later clock read.
C11_Witness ==
    /\ report # << >>
    /\ report[1].vals[1] > 0
    /\ report[1].vals[2] > 0
    /\ report[1].vals[3] > 0
    /\ report[1].at > report[1].vals[2]
    /\ calls > 0

\* C12: THROTTLING is entered after every processed chunk and only then: a
\* non-empty poll leads to PROCESSING_CHUNK and a completed append to
\* THROTTLING before the next poll, an empty poll leads back to the poll with
\* no throttle wait, and no poll happens in THROTTLING.
C12_ThrottleOnlyAfterProcessing ==
    [][/\ (pc' = "throttle" /\ pc # "throttle") =>
              (pc = "append" /\ Len(chunk) > 0 /\ raised' = "none")
       /\ (pc = "append" /\ pc' # "append" /\ raised' = "none") => pc' = "throttle"
       /\ (pc = "poll" /\ pc' \notin {"poll", "crashed"}) =>
              IF Len(chunk') > 0 THEN pc' = "timing" ELSE pc' = "mark"
       /\ (pc = "timing" /\ pc' # "timing") => pc' = "append"
       /\ (pc' = "mark" /\ pc # "mark") =>
              (pc = "throttle" \/ (pc = "poll" /\ Len(chunk') = 0))
       /\ (pc' = "poll" /\ pc # "poll") => pc = "mark"
       /\ pc = "throttle" =>
              (chunk' = chunk /\ timestamps' = timestamps /\ seq' = seq)]_vars

\* C12 witness: a chunk was polled, appended and throttled, and the loop is
\* back at the poll.
C12_Witness ==
    /\ pc = "poll"
    /\ Len(chunk) > 0
    /\ raised = "none"
    /\ Len(hist) >= Len(chunk)
    /\ old_time # << >>
    /\ old_time[1] >= current_local_time

\* C13 as stated: the throttle measures from the start of the previous
\* iteration: it keeps waiting exactly while less than dt_read_buffer has
\* elapsed since that iteration started.
C13_FromPreviousIterationStart ==
    (pc = "throttle" /\ old_time # << >> /\ Len(iters) = 2) =>
        (Waiting(old_time[1]) <=> now - iters[1] < dt_read_buffer)

\* C13 amended: the throttle measures from old_time, recorded by the last
\* statement of the previous iteration, that is when the current iteration
\* starts: it waits exactly while less than dt_read_buffer has elapsed since
\* then, and the loop leaves THROTTLING no earlier than old_time +
\* dt_read_buffer.
C13_FromCurrentIterationStart ==
    /\ (pc = "throttle" /\ old_time # << >>) =>
          /\ old_time[1] = iters[Len(iters)]
          /\ Waiting(old_time[1]) <=> now - iters[Len(iters)] < dt_read_buffer
    /\ (pc = "mark" /\ Len(chunk) > 0) =>
          /\ old_time # << >>
          /\ now >= iters[Len(iters)] + dt_read_buffer

\* C13 witness: the loop has just left THROTTLING, in an iteration that
\* started later than the one before it.
C13_Witness ==
    /\ pc = "mark"
    /\ Len(chunk) > 0
    /\ Len(iters) = 2
    /\ iters[1] < iters[2]
    /\ now = iters[2] + dt_read_buffer

\* C14: whenever the loop reaches the throttle wait, old_time has been assigned
\* by an earlier iteration.
C14_OldTimeAssignedAtThrottle ==
    pc = "throttle" => old_time # << >>

\* C15: for every processed chunk the receipt time is read and the adapter's
\* offset re-queried after the poll that returned the chunk and before the
\* append: the chunk's rows carry the adapter's estimate as of that query and a
\* receipt time not earlier than the poll.
C15_TimingReadPerChunk ==
    pc = "throttle" =>
        /\ entries # << >>
        /\ current_local_time >= entries[Len(entries)].at
        /\ current_local_time <= now
        /\ timestamp_offset = inlet_offset
        /\ \A k \in 1..Len(chunk) :
              /\ timestamp_buffer[buffer_size - Len(chunk) + k][3] = inlet_offset
              /\ timestamp_buffer[buffer_size - Len(chunk) + k][2] >= entries[Len(entries)].at

\* C15 witness: the adapter's estimate has changed since an earlier chunk, and
\* the rows of the chunk just appended carry the new one.
C15_Witness ==
    /\ pc = "throttle"
    /\ Len(hist) > Len(chunk)
    /\ hist[1].off # inlet_offset
    /\ timestamp_buffer[buffer_size][3] = inlet_offset
    /\ hist[Len(hist)].lrt > hist[1].lrt

\* C16: when the window is handed on after the append (the lines after line
\* 152), the append has completed in full: the Sample Matrix and every column
\* of the Time Record have been shifted by the chunk's n rows and hold the
\* chunk in their last n rows; no window with one array updated and the other
\* not is handed on.
C16_WindowHandedOverWhole ==
    pc = "throttle" =>
        LET n == Len(chunk)
        IN  /\ raised = "none"
            /\ n \in 1..buffer_size
            /\ \A i \in 1..(buffer_size - n) :
                  /\ data_buffer[i] = pre_data[i + n]
                  /\ timestamp_buffer[i] = pre_time[i + n]
            /\ \A k \in 1..n :
                  /\ data_buffer[buffer_size - n + k] = chunk[k]
                  /\ timestamp_buffer[buffer_size - n + k] =
                         <<timestamps[k], current_local_time, timestamp_offset>>

\* C16 witness: the window is handed on after an append that shifted rows of
\* an earlier chunk in both arrays.
C16_Witness ==
    /\ pc = "throttle"
    /\ Len(chunk) < buffer_size
    /\ pre_time[buffer_size][1] > 0
    /\ pre_time[buffer_size][3] # timestamp_offset
    /\ timestamp_buffer[buffer_size - Len(chunk)] = pre_time[buffer_size]
    /\ data_buffer[buffer_size - Len(chunk)] = pre_data[buffer_size]

\* C17: with the clock advancing, every entry into THROTTLING is followed by a
\* return to WAITING_FOR_CHUNK, a new poll.  (The clock of the model stops at
\* MaxTime; the waits that can end before it does are the ones looked at.)
C17_ThrottleReturnsToPoll ==
    (pc = "throttle" /\ now + dt_read_buffer <= MaxTime) ~> (pc = "poll")

\* An index-rotation ring buffer of capacity buffer_size: fixed slots and the
\* index of the oldest one, which the next row overwrites.
RingInit == [slots |-> [i \in 1..buffer_size |-> ZeroRow], head |-> 1]

\* One row put into the ring: the oldest slot is overwritten, the index moves on.
RingPut(r, row) ==
    [slots |-> [r.slots EXCEPT ![r.head] = row], head |-> (r.head % buffer_size) + 1]

\* The ring after the rows h have been put into it in order.
RECURSIVE RingAfter(_)
RingAfter(h) ==
    IF h = << >> THEN RingInit
    ELSE RingPut(RingAfter(SubSeq(h, 1, Len(h) - 1)), h[Len(h)])

\* The i-th row of the ring read from its oldest slot to its newest.
RingRead(r, i) == r.slots[((r.head + i - 2) % buffer_size) + 1]

\* C18: after the same appends, the shift buffer read at indices 0 ..
\* buffer_size - 1 yields the rows (samples and time records) that the rotating
\* ring buffer yields read from its oldest slot to its newest.
C18_SameAsRotatingRing ==
    LET ring == RingAfter(hist)
    IN  \A i \in 1..buffer_size :
            LET row == RingRead(ring, i)
            IN  /\ data_buffer[i] = row.sample
                /\ timestamp_buffer[i] = <<row.ts, row.lrt, row.off>>

\* C18 witness: more rows than the capacity were appended and the ring's
\* index has wrapped to a slot inside the array.
C18_Witness ==
    /\ Len(hist) > buffer_size
    /\ RingAfter(hist).head # 1
    /\ pc = "throttle"
    /\ data_buffer[buffer_size] = RingAfter(hist).slots[RingAfter(hist).head - 1].sample

\* C19: the buffers change only through the append of a non-empty chunk: an
\* iteration whose poll returns nothing leaves every row of both arrays as it
\* was, and the append changes neither the chunk, its timestamps, the timing
\* values passed in nor the loop's pacing timestamp.
C19_OnlyAppendChangesBuffers ==
    [][/\ (data_buffer' # data_buffer \/ timestamp_buffer' # timestamp_buffer) =>
              (pc = "append" /\ Len(chunk) > 0)
       /\ (pc = "poll" /\ Len(chunk') = 0) =>
              (data_buffer' = data_buffer /\ timestamp_buffer' = timestamp_buffer)
       /\ (pc = "mark" /\ Len(chunk) = 0) =>
              (data_buffer' = data_buffer /\ timestamp_buffer' = timestamp_buffer)
       /\ (pc = "append" /\ pc' # "append") =>
              /\ chunk' = chunk
              /\ timestamps' = timestamps
              /\ current_local_time' = current_local_time
              /\ timestamp_offset' = timestamp_offset
              /\ old_time' = old_time]_vars

\* C19 witness: an empty poll after rows were appended; the rows are still in
\* place when the iteration ends.
C19_Witness ==
    /\ pc = "mark"
    /\ Len(chunk) = 0
    /\ hist # << >>
    /\ data_buffer[buffer_size] = hist[Len(hist)].sample
    /\ timestamp_buffer[buffer_size][1] = hist[Len(hist)].ts

====
